---- MODULE Spec2Model ----
(***************************************************************************)
(* Model of the markup-normalization pipeline of cleanhtml                 *)
(* (src/lib/html-cleaner.ts).  A document is a tree of element, text and   *)
(* comment nodes; strings are sequences of one-character strings; a        *)
(* serialized markup string is a sequence of tokens (start tag, end tag,   *)
(* character, comment).  Every stage of cleanHTML is one action of Spec;    *)
(* the host page's runClean is the action of HostSpec, and the formatter   *)
(* (beautifyHTML, minifyHTML) works on plain strings in FormatSpec.  The    *)
(* handlers of the page around runClean (input, paste, Clear, and the      *)
(* delayed call of the debounced runClean) are the actions of PageSpec.    *)
(***************************************************************************)
EXTENDS Integers, Sequences, FiniteSets, TLC

VARIABLES html, body, pre, pc, out, output, editor, timer, cleared

vars == <<html, body, pre, pc, out, output, editor, timer, cleared>>

(***************************************************************************)
(* Bounds of the explored inputs.                                          *)
(***************************************************************************)
MaxDepth == 2
MaxSiblings == 1
MaxLiKids == 3
MaxOver == 1
MaxPieces == 3

(***************************************************************************)
(* Strings.                                                                *)
(***************************************************************************)
WhiteSpace == {" ", "\n", "\t"}

Upper == <<"A", "B", "C", "D", "E", "F", "G", "H", "I", "J", "K", "L", "M",
           "N", "O", "P", "Q", "R", "S", "T", "U", "V", "W", "X", "Y", "Z">>

Lower == <<"a", "b", "c", "d", "e", "f", "g", "h", "i", "j", "k", "l", "m",
           "n", "o", "p", "q", "r", "s", "t", "u", "v", "w", "x", "y", "z">>

Digits == {"0", "1", "2", "3", "4", "5", "6", "7", "8", "9"}

Letters == {Upper[i] : i \in 1..26} \cup {Lower[i] : i \in 1..26}

ToLowerChar(c) ==
    IF \E i \in 1..26 : Upper[i] = c
    THEN Lower[CHOOSE i \in 1..26 : Upper[i] = c]
    ELSE c

ToLower(s) == [i \in 1..Len(s) |-> ToLowerChar(s[i])]

RECURSIVE TrimStart(_)
TrimStart(s) ==
    IF s = <<>> THEN <<>>
    ELSE IF Head(s) \in WhiteSpace THEN TrimStart(Tail(s)) ELSE s

RECURSIVE TrimEnd(_)
TrimEnd(s) ==
    IF s = <<>> THEN <<>>
    ELSE IF s[Len(s)] \in WhiteSpace THEN TrimEnd(SubSeq(s, 1, Len(s) - 1)) ELSE s

\* String.prototype.trim
Trim(s) == TrimEnd(TrimStart(s))

\* String.prototype.startsWith
StartsWith(s, p) == Len(s) >= Len(p) /\ SubSeq(s, 1, Len(p)) = p

\* does p occur in s at the 0-based offset i
OccursAt(s, p, i) == i + Len(p) <= Len(s) /\ SubSeq(s, i + 1, i + Len(p)) = p

\* String.prototype.indexOf for a single character: 0-based, -1 when absent
IndexOf(s, c) ==
    IF \E i \in 1..Len(s) : s[i] = c
    THEN (CHOOSE i \in 1..Len(s) : s[i] = c /\ \A j \in 1..(i - 1) : s[j] # c) - 1
    ELSE -1

\* String.prototype.substring(from) and substring(from, to), 0-based
SubstringFrom(s, from) == SubSeq(s, from + 1, Len(s))

Substring(s, from, to) == SubSeq(s, from + 1, to)

RECURSIVE Concat(_)
Concat(ss) == IF ss = <<>> THEN <<>> ELSE Head(ss) \o Concat(Tail(ss))

(***************************************************************************)
(* The document tree.  Every node is a record of the same shape.           *)
(***************************************************************************)
Txt(s) == [kind |-> "text", tag |-> "", attrs |-> <<>>, text |-> s, kids |-> <<>>]

Cmt == [kind |-> "comment", tag |-> "", attrs |-> <<>>, text |-> <<>>, kids |-> <<>>]

El(t, a, ks) == [kind |-> "el", tag |-> t, attrs |-> a, text |-> <<>>, kids |-> ks]

Attr(n, v) == [name |-> n, value |-> v]

NoDoc == [kind |-> "none", tag |-> "", attrs |-> <<>>, text |-> <<>>, kids |-> <<>>]

IsEl(n) == n.kind = "el"

IsTag(n, t) == n.kind = "el" /\ n.tag = t

\* Node.textContent: comments contribute nothing to an element's text
RECURSIVE TextContent(_)
TextContent(n) ==
    IF n.kind = "text" THEN n.text
    ELSE IF n.kind = "el"
         THEN Concat([i \in 1..Len(n.kids) |-> TextContent(n.kids[i])])
         ELSE <<>>

TextOfSeq(ks) == Concat([i \in 1..Len(ks) |-> TextContent(ks[i])])

\* every node of the subtree rooted at n, n included
RECURSIVE Nodes(_)
Nodes(n) == {n} \cup UNION {Nodes(n.kids[i]) : i \in 1..Len(n.kids)}

\* the proper descendants of n
Descendants(n) == UNION {Nodes(n.kids[i]) : i \in 1..Len(n.kids)}

\* Element.getAttribute: the value, or the empty string where the code
\* writes `|| ""` for an absent attribute
HasAttribute(attrs, name) == \E i \in 1..Len(attrs) : attrs[i].name = name

GetAttribute(attrs, name) ==
    IF HasAttribute(attrs, name)
    THEN attrs[CHOOSE i \in 1..Len(attrs) : attrs[i].name = name].value
    ELSE <<>>

\* Element.removeAttribute
RemoveAttribute(attrs, name) == SelectSeq(attrs, LAMBDA a : a.name # name)

(***************************************************************************)
(* Literals of the source.                                                 *)
(***************************************************************************)
N_class == <<"c", "l", "a", "s", "s">>

N_style == <<"s", "t", "y", "l", "e">>

N_dir == <<"d", "i", "r">>

N_aria_level == <<"a", "r", "i", "a", "-", "l", "e", "v", "e", "l">>

N_role == <<"r", "o", "l", "e">>

N_href == <<"h", "r", "e", "f">>

N_src == <<"s", "r", "c">>

N_alt == <<"a", "l", "t">>

N_title == <<"t", "i", "t", "l", "e">>

N_id == <<"i", "d">>

N_name == <<"n", "a", "m", "e">>

P_data == <<"d", "a", "t", "a", "-">>

P_aria == <<"a", "r", "i", "a", "-">>

S_presentation == <<"p", "r", "e", "s", "e", "n", "t", "a", "t", "i", "o", "n">>

S_font_weight == <<"f", "o", "n", "t", "-", "w", "e", "i", "g", "h", "t", ":">>

S_font_style == <<"f", "o", "n", "t", "-", "s", "t", "y", "l", "e", ":">>

S_bold == <<"b", "o", "l", "d">>

S_700 == <<"7", "0", "0">>

S_800 == <<"8", "0", "0">>

S_900 == <<"9", "0", "0">>

S_italic == <<"i", "t", "a", "l", "i", "c">>

S_H1 == <<"H", "1", ":">>

S_H2 == <<"H", "2", ":">>

S_H3 == <<"H", "3", ":">>

S_H4 == <<"H", "4", ":">>

\* const attrsToRemove = ["class", "style", "dir", "aria-level"]
attrsToRemove == {N_class, N_style, N_dir, N_aria_level}

\* const usefulAttrs = ["href", "src", "alt", "title", "id", "name", "data-", "aria-", "role"]
usefulAttrs == {N_href, N_src, N_alt, N_title, N_id, N_name, P_data, P_aria, N_role}

\* const selfClosing = ["IMG", "BR", "HR", "INPUT", "META", "LINK"]
selfClosing == {"img", "br", "hr", "input", "meta", "link"}

VOID_ELEMENTS == {"area", "base", "br", "col", "embed", "hr", "img", "input",
                  "link", "meta", "param", "source", "track", "wbr"}

(***************************************************************************)
(* Stage 1: the Tree Sanitizer (processNode).                              *)
(***************************************************************************)
\* the first offset at or after i where the run of white space starting at i ends
RECURSIVE SkipSpace(_, _)
SkipSpace(s, i) ==
    IF i < Len(s) /\ s[i + 1] \in WhiteSpace THEN SkipSpace(s, i + 1) ELSE i

\* /font-weight:\s*(bold|700|800|900)/i.test(style)
IsBoldStyle(style) ==
    LET s == ToLower(style)
    IN \E i \in 0..Len(s) :
          /\ OccursAt(s, S_font_weight, i)
          /\ \E w \in {S_bold, S_700, S_800, S_900} :
                OccursAt(s, w, SkipSpace(s, i + Len(S_font_weight)))

\* /font-style:\s*italic/i.test(style)
IsItalicStyle(style) ==
    LET s == ToLower(style)
    IN \E i \in 0..Len(s) :
          /\ OccursAt(s, S_font_style, i)
          /\ OccursAt(s, S_italic, SkipSpace(s, i + Len(S_font_style)))

\* StripAttributes with the empty-value test done without trim()
StripAttributes_NoTrim(attrs) ==
    LET a1 == SelectSeq(attrs, LAMBDA a : a.name \notin attrsToRemove)
        a2 == IF HasAttribute(a1, N_role) /\ GetAttribute(a1, N_role) = S_presentation
              THEN RemoveAttribute(a1, N_role)
              ELSE a1
    IN SelectSeq(a2, LAMBDA a : a.value # <<>>)

\* lines 31-44 of processNode: the attributes an element keeps
StripAttributes(attrs) ==
    LET a1 == SelectSeq(attrs, LAMBDA a : a.name \notin attrsToRemove)
        a2 == IF HasAttribute(a1, N_role) /\ GetAttribute(a1, N_role) = S_presentation
              THEN RemoveAttribute(a1, N_role)
              ELSE a1
    IN SelectSeq(a2, LAMBDA a : Trim(a.value) # <<>>)

\* the heading level (1..4) that the trimmed text announces, 0 when none
HeadingLevel(textContent) ==
    IF StartsWith(textContent, S_H1) THEN 1
    ELSE IF StartsWith(textContent, S_H2) THEN 2
    ELSE IF StartsWith(textContent, S_H3) THEN 3
    ELSE IF StartsWith(textContent, S_H4) THEN 4
    ELSE 0

HeadingTag(level) == <<"h1", "h2", "h3", "h4">>[level]

\* heading.textContent = headingText: one text child, none for the empty string
SetTextContent(el, s) ==
    [el EXCEPT !.kids = IF s = <<>> THEN <<>> ELSE <<Txt(s)>>]

\* checkForHeadingMarker with the text after the prefix left untrimmed
checkForHeadingMarker_NoTrim(element) ==
    IF element.tag # "p" THEN [replaced |-> FALSE, heading |-> element]
    ELSE LET textContent == Trim(TextContent(element))
             level == HeadingLevel(textContent)
         IN IF level = 0 THEN [replaced |-> FALSE, heading |-> element]
            ELSE LET headingText == SubstringFrom(textContent, Len(S_H1))
                 IN [replaced |-> TRUE,
                     heading |-> SetTextContent(El(HeadingTag(level), <<>>, <<>>),
                                                headingText)]

\* checkForHeadingMarker: whether the element was replaced, and by what
checkForHeadingMarker(element) ==
    IF element.tag # "p" THEN [replaced |-> FALSE, heading |-> element]
    ELSE LET textContent == Trim(TextContent(element))
             level == HeadingLevel(textContent)
         IN IF level = 0 THEN [replaced |-> FALSE, heading |-> element]
            ELSE LET headingText == Trim(SubstringFrom(textContent, Len(S_H1)))
                 IN [replaced |-> TRUE,
                     heading |-> SetTextContent(El(HeadingTag(level), <<>>, <<>>),
                                                headingText)]

\* lines 51-79 of processNode, for a span whose attributes are already
\* stripped: the nodes that stand in the parent where the span stood
ConvertSpan(element) ==
    LET style == GetAttribute(element.attrs, N_style)
        isBold == IsBoldStyle(style)
        isItalic == IsItalicStyle(style)
    IN IF isBold
       THEN IF isItalic
            THEN <<El("strong", <<>>, <<El("em", <<>>, element.kids)>>)>>
            ELSE <<El("strong", <<>>, element.kids)>>
       ELSE IF isItalic
            THEN <<El("em", <<>>, element.kids)>>
            ELSE element.kids

\* lines 27-79 of processNode: what an element whose children are
\* already processed becomes in its parent
FinishElement(e1) ==
    LET element == [e1 EXCEPT !.attrs = StripAttributes(e1.attrs)]
        hm == checkForHeadingMarker(element)
    IN IF hm.replaced THEN <<hm.heading>>
       ELSE IF element.tag = "span" THEN ConvertSpan(element)
       ELSE <<element>>

\* processNode(node), as the sequence of nodes that replaces node in its
\* parent: comments vanish, text stays, an element is processed bottom-up
RECURSIVE processNode(_)
\* processChildren with comment nodes treated like text nodes
processChildren_KeepComments(children) ==
    Concat([i \in 1..Len(children) |->
              IF children[i].kind = "el" THEN processNode(children[i])
              ELSE <<children[i]>>])

processChildren(children) ==
    Concat([i \in 1..Len(children) |->
              IF children[i].kind = "comment" THEN <<>>
              ELSE IF children[i].kind = "el" THEN processNode(children[i])
              ELSE <<children[i]>>])

\* processNode that unwraps a span before its children were processed
processNode_SpanFirst(node) ==
    IF node.tag = "span" THEN FinishElement(node)
    ELSE FinishElement([node EXCEPT !.kids = processChildren(node.kids)])

processNode(node) ==
    FinishElement([node EXCEPT !.kids = processChildren(node.kids)])

(***************************************************************************)
(* Serialized markup: a sequence of tokens.                                *)
(***************************************************************************)
StartTag(t, a) == [t |-> "start", tag |-> t, attrs |-> a, c |-> ""]

EndTag(t) == [t |-> "end", tag |-> t, attrs |-> <<>>, c |-> ""]

CharTok(ch) == [t |-> "char", tag |-> "", attrs |-> <<>>, c |-> ch]

CommentTok == [t |-> "comment", tag |-> "", attrs |-> <<>>, c |-> ""]

IsSpaceTok(tk) == tk.t = "char" /\ tk.c \in WhiteSpace

RECURSIVE TrimStartTokens(_)
TrimStartTokens(s) ==
    IF s = <<>> THEN <<>>
    ELSE IF IsSpaceTok(Head(s)) THEN TrimStartTokens(Tail(s)) ELSE s

RECURSIVE TrimEndTokens(_)
TrimEndTokens(s) ==
    IF s = <<>> THEN <<>>
    ELSE IF IsSpaceTok(s[Len(s)])
         THEN TrimEndTokens(SubSeq(s, 1, Len(s) - 1))
         ELSE s

\* String.prototype.trim on serialized markup
TrimTokens(s) == TrimEndTokens(TrimStartTokens(s))

\* the serialization of one node: a void element has no end tag
RECURSIVE SerializeNode(_)
SerializeNode(n) ==
    IF n.kind = "text" THEN [i \in 1..Len(n.text) |-> CharTok(n.text[i])]
    ELSE IF n.kind = "comment" THEN <<CommentTok>>
    ELSE IF n.tag \in VOID_ELEMENTS THEN <<StartTag(n.tag, n.attrs)>>
    ELSE <<StartTag(n.tag, n.attrs)>>
         \o Concat([i \in 1..Len(n.kids) |-> SerializeNode(n.kids[i])])
         \o <<EndTag(n.tag)>>

\* Element.innerHTML
InnerHTML(n) == Concat([i \in 1..Len(n.kids) |-> SerializeNode(n.kids[i])])

\* the offset after the run of character tokens that starts at i (1-based)
RECURSIVE CharRunEnd(_, _)
CharRunEnd(toks, i) ==
    IF i <= Len(toks) /\ toks[i].t = "char" THEN CharRunEnd(toks, i + 1) ELSE i

\* the sibling nodes that the tokens from position i on describe, up to the
\* end tag that closes their parent
RECURSIVE ParseNodes(_, _)
ParseNodes(toks, i) ==
    IF i > Len(toks) \/ toks[i].t = "end" THEN [nodes |-> <<>>, next |-> i]
    ELSE IF toks[i].t = "char"
    THEN LET j == CharRunEnd(toks, i)
             r == ParseNodes(toks, j)
         IN [nodes |-> <<Txt([k \in 1..(j - i) |-> toks[i + k - 1].c])>> \o r.nodes,
             next |-> r.next]
    ELSE IF toks[i].t = "comment"
    THEN LET r == ParseNodes(toks, i + 1)
         IN [nodes |-> <<Cmt>> \o r.nodes, next |-> r.next]
    ELSE IF toks[i].tag \in VOID_ELEMENTS
    THEN LET r == ParseNodes(toks, i + 1)
         IN [nodes |-> <<El(toks[i].tag, toks[i].attrs, <<>>)>> \o r.nodes,
             next |-> r.next]
    ELSE LET inner == ParseNodes(toks, i + 1)
             r == ParseNodes(toks, inner.next + 1)
         IN [nodes |-> <<El(toks[i].tag, toks[i].attrs, inner.nodes)>> \o r.nodes,
             next |-> r.next]

\* parser.parseFromString(html, "text/html").body
\* (white space before the first other token is dropped by the parser)
ParseBody(toks) == El("body", <<>>, ParseNodes(TrimStartTokens(toks), 1).nodes)

(***************************************************************************)
(* Stage 3: the Empty Element Pruner (removeEmptyElements).                *)
(***************************************************************************)
\* hasUsefulAttributes: attr.name.startsWith(useful) for some useful
hasUsefulAttributes(element) ==
    \E i \in 1..Len(element.attrs) :
       \E useful \in usefulAttrs : StartsWith(element.attrs[i].name, useful)

\* innerHTML === "<br>": the serializer writes a br element without
\* attributes so, and never writes "<br/>"
IsBareBr(innerHTML) == innerHTML = <<StartTag("br", <<>>)>>

\* IsRemoved with the paragraph rule applied only to paragraphs without
\* useful attributes
IsRemoved_KeepUsefulP(element) ==
    LET innerHTML == TrimTokens(InnerHTML(element))
    IN IF element.tag = "body" THEN FALSE
       ELSE IF /\ element.tag = "p"
               /\ ~hasUsefulAttributes(element)
               /\ (innerHTML = <<>> \/ IsBareBr(innerHTML))
       THEN TRUE
       ELSE /\ element.tag \notin selfClosing
            /\ innerHTML = <<>>
            /\ ~hasUsefulAttributes(element)

\* lines 146-161 of removeEmptyElements, for an element whose children are
\* already pruned: TRUE when it is removed.  The document has one body
\* element, so element === element.ownerDocument.body is a test of the tag.
IsRemoved(element) ==
    LET innerHTML == TrimTokens(InnerHTML(element))
    IN IF element.tag = "body" THEN FALSE
       ELSE IF element.tag = "p" /\ (innerHTML = <<>> \/ IsBareBr(innerHTML))
       THEN TRUE
       ELSE /\ element.tag \notin selfClosing
            /\ innerHTML = <<>>
            /\ ~hasUsefulAttributes(element)

\* removeEmptyElements(node) for an element, as the sequence that replaces
\* it in its parent (empty when it is removed)
RECURSIVE removeEmptyElements(_)
pruneChildren(children) ==
    Concat([i \in 1..Len(children) |->
              IF children[i].kind = "el" THEN removeEmptyElements(children[i])
              ELSE <<children[i]>>])

\* removeEmptyElements that tests an element before pruning its children
removeEmptyElements_PreOrder(node) ==
    IF IsRemoved(node) THEN <<>>
    ELSE <<[node EXCEPT !.kids = pruneChildren(node.kids)]>>

removeEmptyElements(node) ==
    LET element == [node EXCEPT !.kids = pruneChildren(node.kids)]
    IN IF IsRemoved(element) THEN <<>> ELSE <<element>>

\* the document body after removeEmptyElements(body); NoDoc if it were removed
pruneBody(b) ==
    LET r == removeEmptyElements(b) IN IF r = <<>> THEN NoDoc ELSE r[1]

(***************************************************************************)
(* Stage 2: the List Item Normalizer (cleanListItems, boldUpToColon).      *)
(***************************************************************************)
\* if (colonIndex > 0 && colonIndex < 80)
ColonLimit == 80

\* UnwrapParagraphs for the p children of the item only
UnwrapParagraphs_ChildrenOnly(children) ==
    Concat([i \in 1..Len(children) |->
              IF children[i].kind = "el" /\ children[i].tag = "p"
              THEN children[i].kids
              ELSE <<children[i]>>])

\* unwrapElement applied to every p descendant: the children of each p
\* stand where the p stood
RECURSIVE UnwrapParagraphs(_)
UnwrapParagraphs(children) ==
    Concat([i \in 1..Len(children) |->
              IF children[i].kind # "el" THEN <<children[i]>>
              ELSE IF children[i].tag = "p" THEN UnwrapParagraphs(children[i].kids)
              ELSE <<[children[i] EXCEPT !.kids = UnwrapParagraphs(children[i].kids)]>>])

IsBoldTag(n) == n.kind = "el" /\ n.tag \in {"strong", "b"}

\* ColonScan that splits the text node before the colon instead of after it
RECURSIVE ColonScan_ColonOut(_, _, _, _)
ColonScan_ColonOut(children, i, kept, label) ==
    IF i > Len(children)
    THEN kept \o label                       \* never found: append everything back
    ELSE LET child == children[i]
             rest == SubSeq(children, i + 1, Len(children))
             colonIdx == IndexOf(TextContent(child), ":")
         IN IF child.kind = "text"
            THEN IF colonIdx # -1
                 THEN LET beforeColon == Substring(child.text, 0, colonIdx)
                          afterColon == SubstringFrom(child.text, colonIdx)
                          strong == El("strong", <<>>, label \o <<Txt(beforeColon)>>)
                      IN kept \o <<strong>>
                         \o (IF afterColon # <<>> THEN <<Txt(afterColon)>> ELSE <<>>)
                         \o rest
                 ELSE ColonScan_ColonOut(children, i + 1, kept, label \o <<child>>)
            ELSE IF child.kind = "el"
            THEN IF IsBoldTag(child)
                 THEN kept \o SubSeq(children, i, Len(children))   \* return
                 ELSE IF colonIdx # -1
                      THEN <<El("strong", <<>>, label \o <<child>>)>> \o kept \o rest
                      ELSE ColonScan_ColonOut(children, i + 1, kept, label \o <<child>>)
            ELSE ColonScan_ColonOut(children, i + 1, kept \o <<child>>, label)

\* the loop of boldUpToColon from the i-th child of the snapshot on.
\* kept: the children visited so far that are still in the li (neither text
\* nor element); label: the children moved into the new strong element.
\* The result is the child list of the li when the function returns.
RECURSIVE ColonScan(_, _, _, _)
ColonScan(children, i, kept, label) ==
    IF i > Len(children)
    THEN kept \o label                       \* never found: append everything back
    ELSE LET child == children[i]
             rest == SubSeq(children, i + 1, Len(children))
             colonIdx == IndexOf(TextContent(child), ":")
         IN IF child.kind = "text"
            THEN IF colonIdx # -1
                 THEN LET beforeColon == Substring(child.text, 0, colonIdx + 1)
                          afterColon == SubstringFrom(child.text, colonIdx + 1)
                          strong == El("strong", <<>>, label \o <<Txt(beforeColon)>>)
                      IN kept \o <<strong>>
                         \o (IF afterColon # <<>> THEN <<Txt(afterColon)>> ELSE <<>>)
                         \o rest
                 ELSE ColonScan(children, i + 1, kept, label \o <<child>>)
            ELSE IF child.kind = "el"
            THEN IF IsBoldTag(child)
                 THEN kept \o SubSeq(children, i, Len(children))   \* return
                 ELSE IF colonIdx # -1
                      THEN <<El("strong", <<>>, label \o <<child>>)>> \o kept \o rest
                      ELSE ColonScan(children, i + 1, kept, label \o <<child>>)
            ELSE ColonScan(children, i + 1, kept \o <<child>>, label)

\* ScanOutcome that looks for the colon in the text children only
RECURSIVE ScanOutcome_TextOnly(_, _)
ScanOutcome_TextOnly(children, i) ==
    IF i > Len(children) THEN "notfound"
    ELSE LET child == children[i]
         IN IF child.kind = "text" /\ IndexOf(child.text, ":") # -1 THEN "found"
            ELSE IF IsBoldTag(child) THEN "aborted"
            ELSE ScanOutcome_TextOnly(children, i + 1)

\* how the loop of boldUpToColon ends from the i-th child of the snapshot
\* on: "found" (found = true, in a text or an element child), "aborted"
\* (the return on a strong or b child) or "notfound" (the loop runs through
\* all children and if (!found) puts everything back)
RECURSIVE ScanOutcome(_, _)
ScanOutcome(children, i) ==
    IF i > Len(children) THEN "notfound"
    ELSE LET child == children[i]
             colonIdx == IndexOf(TextContent(child), ":")
         IN IF child.kind = "text"
            THEN IF colonIdx # -1 THEN "found" ELSE ScanOutcome(children, i + 1)
            ELSE IF child.kind = "el"
            THEN IF IsBoldTag(child) THEN "aborted"
                 ELSE IF colonIdx # -1 THEN "found"
                 ELSE ScanOutcome(children, i + 1)
            ELSE ScanOutcome(children, i + 1)

\* boldUpToColon(li, doc)
boldUpToColon(li) == [li EXCEPT !.kids = ColonScan(li.kids, 1, <<>>, <<>>)]

\* cleanListItem with the upper bound of the colon offset included
cleanListItem_Inclusive(li) ==
    LET unwrapped == [li EXCEPT !.kids = UnwrapParagraphs(li.kids)]
        colonIndex == IndexOf(TextContent(unwrapped), ":")
    IN IF unwrapped.kids # <<>> /\ IsBoldTag(unwrapped.kids[1]) THEN unwrapped
       ELSE IF colonIndex > 0 /\ colonIndex <= ColonLimit THEN boldUpToColon(unwrapped)
       ELSE unwrapped

\* the body of the loop of cleanListItems for one li
cleanListItem(li) ==
    LET unwrapped == [li EXCEPT !.kids = UnwrapParagraphs(li.kids)]
        colonIndex == IndexOf(TextContent(unwrapped), ":")
    IN IF unwrapped.kids # <<>> /\ IsBoldTag(unwrapped.kids[1]) THEN unwrapped
       ELSE IF colonIndex > 0 /\ colonIndex < ColonLimit THEN boldUpToColon(unwrapped)
       ELSE unwrapped

\* cleanListItems(root): every li under root, in document order
RECURSIVE cleanListItems(_)
cleanListItems(root) ==
    LET n == IF IsTag(root, "li") THEN cleanListItem(root) ELSE root
    IN [n EXCEPT !.kids = [i \in 1..Len(n.kids) |-> cleanListItems(n.kids[i])]]

(***************************************************************************)
(* Stage 4: the Auto-Linker (autoLinkEmailsAndPhones).                     *)
(***************************************************************************)
S_tel == <<"t", "e", "l", ":">>

S_mailto == <<"m", "a", "i", "l", "t", "o", ":">>

\* one step of a pattern: a character of a class, required or optional
One(class) == [class |-> class, optional |-> FALSE]

Opt(class) == [class |-> class, optional |-> TRUE]

Sep == WhiteSpace \cup {"-"}

D4 == <<One(Digits), One(Digits), One(Digits), One(Digits)>>

D3 == <<One(Digits), One(Digits), One(Digits)>>

\* the five alternatives of PHONE_REGEX, in the order of the source
PHONE_REGEX ==
    << <<One({"+"}), One({"6"}), One({"1"}), Opt(WhiteSpace), One(Digits), Opt(Sep)>>
          \o D4 \o <<Opt(Sep)>> \o D4,
       <<One({"("}), One({"0"}), One(Digits), One({")"}), Opt(WhiteSpace)>>
          \o D4 \o <<Opt(Sep)>> \o D4,
       <<One({"0"}), One({"2", "3", "4", "7", "8"}), Opt(WhiteSpace)>>
          \o D4 \o <<Opt(Sep)>> \o D4,
       <<One({"0"}), One({"4"}), One(Digits), One(Digits), Opt(Sep)>>
          \o D3 \o <<Opt(Sep)>> \o D3,
       <<One({"1"}), One({"3", "8"}), One({"0"}), One({"0"}), Opt(Sep)>>
          \o D3 \o <<Opt(Sep)>> \o D3 >>

\* the end offset of the match of the steps from the k-th on at offset i,
\* -1 when they do not match.  An optional step is always followed by a
\* required step of a disjoint class, so taking it when possible is the
\* only way to match.
RECURSIVE MatchSteps(_, _, _, _)
MatchSteps(s, i, steps, k) ==
    IF k > Len(steps) THEN i
    ELSE IF i < Len(s) /\ s[i + 1] \in steps[k].class
         THEN MatchSteps(s, i + 1, steps, k + 1)
         ELSE IF steps[k].optional THEN MatchSteps(s, i, steps, k + 1) ELSE -1

\* the end offset of the phone match at offset i: the first alternative
\* that matches decides
MatchPhone(s, i) ==
    LET hits == {k \in 1..Len(PHONE_REGEX) : MatchSteps(s, i, PHONE_REGEX[k], 1) # -1}
    IN IF hits = {} THEN -1
       ELSE MatchSteps(s, i, PHONE_REGEX[CHOOSE k \in hits : \A h \in hits : k <= h], 1)

LocalChars == Letters \cup Digits \cup {".", "_", "%", "+", "-"}

DomainChars == Letters \cup Digits \cup {".", "-"}

\* the offset where the run of characters of a class that starts at i ends
RECURSIVE RunEnd(_, _, _)
RunEnd(s, i, class) ==
    IF i < Len(s) /\ s[i + 1] \in class THEN RunEnd(s, i + 1, class) ELSE i

\* EMAIL_REGEX at offset i: [a-zA-Z0-9._%+-]+ @ [a-zA-Z0-9.-]+ \. [a-zA-Z]{2,}
\* with greedy quantifiers: the local part is the whole run before the @,
\* the domain gives back characters until a dot followed by two letters
\* is found, and the letters after that dot are taken greedily
MatchEmail(s, i) ==
    LET at == RunEnd(s, i, LocalChars)
        d == at + 1
        e == RunEnd(s, d, DomainChars)
        dots == {k \in (d + 1)..(e - 1) :
                    /\ s[k + 1] = "."
                    /\ RunEnd(s, k + 1, Letters) >= k + 3}
    IN IF at > i /\ at < Len(s) /\ s[at + 1] = "@" /\ dots # {}
       THEN RunEnd(s, (CHOOSE k \in dots : \A h \in dots : h <= k) + 1, Letters)
       ELSE -1

\* the match of the combined pattern (phone)|(email) that starts at offset i
MatchAt(s, i) ==
    IF MatchPhone(s, i) # -1
    THEN [index |-> i, end |-> MatchPhone(s, i), phone |-> TRUE]
    ELSE [index |-> i, end |-> MatchEmail(s, i), phone |-> FALSE]

\* text.matchAll(combined) from offset `from` on: leftmost match first, the
\* search resumes at the end of each match
RECURSIVE MatchAll(_, _)
MatchAll(s, from) ==
    LET starts == {i \in from..(Len(s) - 1) : MatchAt(s, i).end # -1}
    IN IF starts = {} THEN <<>>
       ELSE LET m == MatchAt(s, CHOOSE i \in starts : \A j \in starts : i <= j)
            IN <<m>> \o MatchAll(s, m.end)

\* StripPhone that removes white space and dashes only
StripPhone_KeepParens(matchText) ==
    SelectSeq(matchText, LAMBDA ch : ch \notin (WhiteSpace \cup {"-"}))

\* matchText.replace(/[\s()-]/g, "")
StripPhone(matchText) ==
    SelectSeq(matchText, LAMBDA ch : ch \notin (WhiteSpace \cup {"(", ")", "-"}))

\* Anchor that shows the stripped number where the match is a telephone number
Anchor_ShowStripped(text, m) ==
    LET matchText == Substring(text, m.index, m.end)
    IN El("a",
          <<Attr(N_href, IF m.phone THEN S_tel \o StripPhone(matchText)
                                    ELSE S_mailto \o matchText)>>,
          <<Txt(IF m.phone THEN StripPhone(matchText) ELSE matchText)>>)

\* the anchor built for one match
Anchor(text, m) ==
    LET matchText == Substring(text, m.index, m.end)
    IN El("a",
          <<Attr(N_href, IF m.phone THEN S_tel \o StripPhone(matchText)
                                    ELSE S_mailto \o matchText)>>,
          <<Txt(matchText)>>)

\* Fragment without the text that follows the last match
RECURSIVE Fragment_NoTail(_, _, _, _)
Fragment_NoTail(text, matches, k, lastIndex) ==
    IF k > Len(matches)
    THEN <<>>
    ELSE (IF matches[k].index > lastIndex
          THEN <<Txt(Substring(text, lastIndex, matches[k].index))>>
          ELSE <<>>)
         \o <<Anchor(text, matches[k])>>
         \o Fragment_NoTail(text, matches, k + 1, matches[k].end)

\* the fragment built from the matches k.. of a text, lastIndex being the
\* end of the previous match
RECURSIVE Fragment(_, _, _, _)
Fragment(text, matches, k, lastIndex) ==
    IF k > Len(matches)
    THEN IF lastIndex < Len(text) THEN <<Txt(SubstringFrom(text, lastIndex))>> ELSE <<>>
    ELSE (IF matches[k].index > lastIndex
          THEN <<Txt(Substring(text, lastIndex, matches[k].index))>>
          ELSE <<>>)
         \o <<Anchor(text, matches[k])>>
         \o Fragment(text, matches, k + 1, matches[k].end)

\* what one text node outside any link is replaced by
LinkText(textNode) ==
    LET matches == MatchAll(textNode.text, 0)
    IN IF matches = <<>> THEN <<textNode>>
       ELSE Fragment(textNode.text, matches, 1, 0)

\* autoLinkChildren that looks at the parent of a text node only
RECURSIVE autoLinkChildren_ParentOnly(_, _)
autoLinkChildren_ParentOnly(children, inLink) ==
    Concat([i \in 1..Len(children) |->
              LET child == children[i]
              IN IF child.kind = "text"
                 THEN IF inLink THEN <<child>> ELSE LinkText(child)
                 ELSE IF child.kind = "el"
                 THEN <<[child EXCEPT !.kids =
                            autoLinkChildren_ParentOnly(child.kids, child.tag = "a")]>>
                 ELSE <<child>>])

\* autoLinkEmailsAndPhones below node; inLink: some ancestor-or-self of the
\* parent is an a element
RECURSIVE autoLinkChildren(_, _)
autoLinkChildren(children, inLink) ==
    Concat([i \in 1..Len(children) |->
              LET child == children[i]
              IN IF child.kind = "text"
                 THEN IF inLink THEN <<child>> ELSE LinkText(child)
                 ELSE IF child.kind = "el"
                 THEN <<[child EXCEPT !.kids =
                            autoLinkChildren(child.kids, inLink \/ child.tag = "a")]>>
                 ELSE <<child>>])

autoLinkEmailsAndPhones(root) ==
    [root EXCEPT !.kids = autoLinkChildren(root.kids, root.tag = "a")]

(***************************************************************************)
(* cleanHTML as a function, and as a sequence of steps.                    *)
(***************************************************************************)
\* the document body after processNode(body); NoDoc if it were replaced
Sanitize(b) ==
    LET r == processNode(b) IN IF Len(r) = 1 /\ r[1].tag = "body" THEN r[1] ELSE NoDoc

cleanHTML(markup) ==
    TrimTokens(InnerHTML(
        autoLinkEmailsAndPhones(pruneBody(cleanListItems(Sanitize(ParseBody(markup)))))))

(***************************************************************************)
(* The inputs: markup that serializes a bounded family of documents.       *)
(***************************************************************************)
\* the sequences over S of length at most n
RECURSIVE SeqsUpTo(_, _)
SeqsUpTo(S, n) ==
    IF n = 0 THEN {<<>>}
    ELSE LET shorter == SeqsUpTo(S, n - 1)
         IN shorter \cup {Append(q, x) : q \in shorter, x \in S}

Wrapper(t, a) == [tag |-> t, attrs |-> a]

\* a leaf, an empty wrapper, or a wrapper around one chain, nested at most d deep
RECURSIVE Chains(_, _, _)
Chains(W, L, d) ==
    IF d = 0 THEN L
    ELSE L \cup {El(w.tag, w.attrs, <<>>) : w \in W}
           \cup {El(w.tag, w.attrs, <<c>>) : w \in W, c \in Chains(W, L, d - 1)}

BlockTags == {"p", "div", "ul", "ol", "li", "h1", "h2", "h3", "h4"}

\* a tree the parser can build: a p holds no block element, an a holds no a,
\* an li lies in another li only below a list of its own, a void element is empty
RECURSIVE Parseable(_, _, _, _)
Parseable(n, inP, inA, inLi) ==
    \/ n.kind # "el"
    \/ /\ ~(inP /\ n.tag \in BlockTags)
       /\ ~(inA /\ n.tag = "a")
       /\ ~(inLi /\ n.tag = "li")
       /\ (n.tag \in VOID_ELEMENTS => n.kids = <<>>)
       /\ \A i \in 1..Len(n.kids) :
             Parseable(n.kids[i],
                       inP \/ n.tag = "p",
                       inA \/ n.tag = "a",
                       (inLi \/ n.tag = "li") /\ n.tag \notin {"ul", "ol"})

T_x == <<"x">>

T_y == <<"y">>

T_sp == <<" ">>

V_bold == S_font_weight \o S_bold

V_700 == ToLower(<<"F", "O", "N", "T", "-", "W", "E", "I", "G", "H", "T", ":", " ">>) \o S_700

V_boldUpper == <<"F", "O", "N", "T", "-", "W", "E", "I", "G", "H", "T", ":", " ", "B", "o", "l", "d">>

V_italic == S_font_style \o S_italic

V_both == V_bold \o <<";">> \o V_italic

V_color == <<"c", "o", "l", "o", "r", ":", "r", "e", "d">>

N_data_x == P_data \o T_x

N_aria_label == P_aria \o <<"l", "a", "b", "e", "l">>

N_srcdoc == N_src \o <<"d", "o", "c">>

N_lang == <<"l", "a", "n", "g">>

S_button == <<"b", "u", "t", "t", "o", "n">>

\* siblings that stand before the subject of an input
Contexts == SeqsUpTo({Txt(T_y), Cmt}, MaxSiblings)

InContexts(items) == {c \o <<it>> : c \in Contexts, it \in items}

\* elements with the attributes and wrappers the sanitizer deals with
SanitizeWrappers ==
    { Wrapper("span", <<>>),
      Wrapper("span", <<Attr(N_class, T_x), Attr(N_style, V_bold)>>),
      Wrapper("span", <<Attr(N_id, T_x)>>),
      Wrapper("div", <<Attr(N_class, T_x), Attr(N_style, V_color), Attr(N_dir, T_x),
                       Attr(N_aria_level, T_x), Attr(N_role, S_presentation),
                       Attr(N_title, T_sp), Attr(N_lang, <<>>), Attr(N_id, T_x)>>),
      Wrapper("p", <<Attr(N_role, S_button), Attr(N_class, T_x)>>),
      Wrapper("b", <<>>) }

SanitizeLeaves == {Txt(T_x), Cmt, Txt(S_H2 \o T_sp \o T_x)}

FamSanitize == InContexts(Chains(SanitizeWrappers, SanitizeLeaves, MaxDepth))

\* spans that declare emphasis in their style
StyleValues == {V_bold, V_700, V_boldUpper, V_italic, V_both, V_color}

FamStyle ==
    InContexts({El("span", <<Attr(N_style, v)>>, ks) :
                   v \in StyleValues,
                   ks \in {<<>>, <<Txt(T_x)>>, <<Txt(T_x), El("i", <<>>, <<Txt(T_y)>>)>>,
                           <<El("span", <<Attr(N_style, V_italic)>>, <<Txt(T_x)>>)>>}})

\* paragraphs and other elements whose text may start with a heading marker
HeadingTexts ==
    { S_H1, S_H2 \o T_sp \o T_x, T_sp \o S_H3 \o T_x \o T_sp, S_H4 \o T_x,
      <<"h", "2", ":", " ", "x">>, <<"H", "5", ":", "x">>, T_x \o S_H1, <<"H", "2">> }

FamHeading ==
    InContexts({El(t, a, <<Txt(h)>>) :
                   t \in {"p", "div", "span", "li"},
                   a \in {<<>>, <<Attr(N_id, T_x)>>},
                   h \in HeadingTexts}
               \cup {El("p", <<>>, <<El("b", <<>>, <<Txt(S_H1)>>), Txt(T_sp \o T_x)>>),
                     El("p", <<>>, <<Cmt, Txt(S_H2), El("span", <<>>, <<Txt(T_x)>>)>>),
                     El("div", <<>>, <<El("p", <<>>, <<Txt(S_H3 \o T_x)>>), Txt(T_y)>>)})

\* list items: every sequence of at most MaxLiKids children of these kinds
T_a == <<"a">>

T_colon_v == <<":", " ", "v">>

LiKinds ==
    { Txt(T_a),
      Txt(T_colon_v),
      El("span", <<>>, <<Txt(T_a)>>),
      El("strong", <<>>, <<Txt(T_x)>>),
      El("em", <<>>, <<Txt(T_y)>>),
      El("em", <<>>, <<Txt(<<"k", ":">>)>>),
      El("p", <<>>, <<Txt(<<"n", ":">>)>>),
      El("ul", <<>>, <<El("li", <<>>, <<Txt(<<"c", ":", "d">>)>>)>>) }

InList(lis) == {<<El("ul", <<>>, <<li>>)>> : li \in lis}

FamList ==
    InList({El("li", <<>>, ks) : ks \in SeqsUpTo(LiKinds, MaxLiKids)}
           \cup {El("li", <<>>, <<Txt(T_a), El("b", <<>>, <<Txt(T_x)>>), Txt(T_colon_v)>>),
                 El("li", <<>>, <<El("b", <<>>, <<>>), Txt(T_a \o T_colon_v)>>),
                 El("li", <<>>, <<El("p", <<>>, <<El("i", <<>>, <<Txt(T_a)>>), Txt(T_colon_v)>>),
                                  El("div", <<>>, <<El("p", <<>>, <<Txt(T_x)>>)>>)>>)})
    \cup {<<El("ul", <<>>,
               <<El("li", <<>>, <<Txt(T_a), El("em", <<>>, <<Txt(<<"k", ":">>)>>)>>),
                 El("li", <<>>, <<Txt(T_a), El("b", <<>>, <<Txt(T_x)>>), Txt(T_colon_v)>>)>>)>>}

\* list items whose first colon stands at every offset up to ColonLimit + MaxOver
Pad(n) == [i \in 1..n |-> "x"]

FamPad ==
    InList({El("li", <<>>, <<Txt(Pad(k) \o T_colon_v)>>) : k \in 0..(ColonLimit + MaxOver)}
           \cup {El("li", <<>>, <<El("em", <<>>, <<Txt(Pad(k))>>), Txt(T_colon_v)>>) :
                    k \in 1..(ColonLimit + MaxOver)}
           \cup {El("li", <<>>, <<Txt(Pad(k))>>) : k \in 0..MaxOver})

\* elements that are empty, or hold only white space, line breaks or other empties
PruneWrappers ==
    { Wrapper("p", <<>>),
      Wrapper("p", <<Attr(N_id, T_x)>>),
      Wrapper("div", <<>>),
      Wrapper("div", <<Attr(N_srcdoc, T_x)>>),
      Wrapper("div", <<Attr(N_lang, T_x)>>),
      Wrapper("a", <<Attr(N_href, T_x)>>) }

PruneLeaves ==
    { Txt(T_sp), Txt(T_x), El("br", <<>>, <<>>), El("br", <<Attr(N_data_x, T_x)>>, <<>>),
      El("img", <<>>, <<>>) }

FamPrune ==
    InContexts(Chains(PruneWrappers, PruneLeaves, MaxDepth)
               \cup {El("p", <<>>, <<Txt(T_sp), El("br", <<>>, <<>>), Txt(T_sp)>>),
                     El("p", <<>>, <<El("br", <<>>, <<>>), El("br", <<>>, <<>>)>>),
                     El("div", <<Attr(N_aria_label, T_x)>>, <<>>),
                     El("wbr", <<>>, <<>>),
                     El("hr", <<>>, <<>>)})

\* text with telephone numbers and e-mail addresses
T_mobile == <<"0", "4", "1", "2", " ", "3", "4", "5", " ", "6", "7", "8">>

T_mail == <<"a", "@", "b", ".", "c", "o", "m">>

T_call == <<"C", "a", "l", "l", " ">> \o T_mobile \o <<" ", "o", "r", " ">> \o T_mail

\* one telephone number of each form of PHONE_REGEX
T_intl == <<"+", "6", "1", " ", "4", " ", "1", "2", "3", "4", " ", "5", "6", "7", "8">>

T_landline == <<"(", "0", "2", ")", " ", "9", "8", "7", "6", "-", "5", "4", "3", "2">>

T_plain == <<"0", "2", " ", "9", "8", "7", "6", "5", "4", "3", "2">>

T_1300 == <<"1", "3", "0", "0", "-", "1", "2", "3", "\t", "4", "5", "6">>

\* digits that are a telephone number and also the local part of an address
T_digitsAt == <<"0", "4", "1", "2", "3", "4", "5", "6", "7", "8", "@", "b", ".", "c", "o">>

T_or == <<" ", "o", "r", " ">>

LinkTexts ==
    { T_mobile, T_mail, T_call, T_intl, T_landline, T_plain, T_1300, T_digitsAt,
      T_mail \o T_sp \o T_intl \o T_x,
      T_landline \o T_or \o T_1300 \o T_or \o T_mail,
      T_intl \o T_or \o T_landline,
      <<"C", "a", "l", "l">>,
      <<"a", "@", "b">>,
      SubSeq(T_mobile, 1, 11) }

FamLink ==
    InContexts({El("p", <<>>, ks) :
                   ks \in { <<Txt(SubSeq(T_mobile, 1, 2)),
                             El("span", <<>>, <<Txt(SubSeq(T_mobile, 3, 4))>>),
                             Txt(SubSeq(T_mobile, 5, 12))>>,
                           <<Txt(SubSeq(T_mail, 1, 2)), Cmt, Txt(SubSeq(T_mail, 3, 7))>>,
                           <<El("a", <<Attr(N_href, T_x)>>, <<Txt(T_mail)>>)>>,
                           <<El("a", <<Attr(N_href, T_x)>>,
                                <<El("b", <<>>, <<Txt(T_mobile)>>)>>)>>,
                           <<El("a", <<Attr(N_href, T_x)>>,
                                <<El("b", <<>>, <<Txt(T_mobile)>>)>>),
                             Txt(T_sp \o T_landline)>>,
                           <<Txt(T_mail), El("em", <<>>, <<Txt(T_mobile)>>), Txt(T_call)>>,
                           <<Txt(T_x), El("a", <<Attr(N_href, T_x)>>, <<Txt(T_intl)>>),
                             Txt(T_sp \o T_mail)>> }}
               \cup {El(t, <<>>, <<Txt(x)>>) : t \in {"p", "a"}, x \in LinkTexts}
               \cup {Txt(x) : x \in LinkTexts}
               \cup {El("ul", <<>>, <<El("li", <<>>, <<Txt(T_a \o T_colon_v \o T_sp \o T_mobile),
                                                        El("em", <<>>, <<>>)>>)>>),
                     El("p", <<Attr(N_data_x, T_x)>>,
                        <<Txt(T_call),
                          El("em", <<Attr(N_lang, T_x)>>, <<Txt(T_landline)>>)>>)})

\* list items that hold paragraphs at several depths, and no colon
ParaKinds ==
    { Txt(T_a),
      El("p", <<>>, <<Txt(T_x)>>),
      El("p", <<>>, <<>>),
      El("div", <<>>, <<El("p", <<>>, <<El("i", <<>>, <<Txt(T_a)>>), Txt(T_y)>>), Txt(T_x)>>),
      El("ul", <<>>, <<El("li", <<>>, <<El("p", <<>>, <<Txt(T_y)>>), Txt(T_a)>>)>>) }

FamPara == InList({El("li", <<>>, ks) : ks \in SeqsUpTo(ParaKinds, MaxLiKids)})

\* no markup at all, or white space only
FamBlank == {<<>>, <<Txt(T_sp)>>, <<Txt(<<" ", "\n", "\t">>)>>}

Families == FamSanitize \cup FamStyle \cup FamHeading \cup FamList \cup FamPad
            \cup FamPrune \cup FamLink \cup FamBlank \cup FamPara

InputTrees ==
    {t \in Families : \A i \in 1..Len(t) : Parseable(t[i], FALSE, FALSE, FALSE)}

\* the markup of a document with the given children of the body
Markup(children) == Concat([i \in 1..Len(children) |-> SerializeNode(children[i])])

Inputs == {Markup(t) : t \in InputTrees}

\* no call of the debounced runClean is waiting
NoTimer == [set |-> FALSE, arg |-> <<>>]

(***************************************************************************)
(* The steps of one call of cleanHTML.                                     *)
(***************************************************************************)
Init ==
    /\ html \in Inputs
    /\ body = NoDoc
    /\ pre = NoDoc
    /\ pc = "start"
    /\ out = <<>>
    /\ output = <<>>
    /\ editor = <<>>
    /\ timer = NoTimer
    /\ cleared = FALSE

\* const doc = parser.parseFromString(html, "text/html"); const body = doc.body
Parse ==
    /\ pc = "start"
    /\ body' = ParseBody(html)
    /\ pre' = body
    /\ pc' = "parsed"
    /\ UNCHANGED <<html, out, output, editor, timer, cleared>>

\* processNode(body)
SanitizeStep ==
    /\ pc = "parsed"
    /\ body' = Sanitize(body)
    /\ pre' = body
    /\ pc' = "sanitized"
    /\ UNCHANGED <<html, out, output, editor, timer, cleared>>

\* cleanListItems(body)
ListStep ==
    /\ pc = "sanitized"
    /\ body' = cleanListItems(body)
    /\ pre' = body
    /\ pc' = "listed"
    /\ UNCHANGED <<html, out, output, editor, timer, cleared>>

\* removeEmptyElements(body)
PruneStep ==
    /\ pc = "listed"
    /\ body' = pruneBody(body)
    /\ pre' = body
    /\ pc' = "pruned"
    /\ UNCHANGED <<html, out, output, editor, timer, cleared>>

\* autoLinkEmailsAndPhones(body)
LinkStep ==
    /\ pc = "pruned"
    /\ body' = autoLinkEmailsAndPhones(body)
    /\ pre' = body
    /\ pc' = "linked"
    /\ UNCHANGED <<html, out, output, editor, timer, cleared>>

\* SerializeStep taken right after the pruner
SerializeStep_Early ==
    /\ pc = "pruned"
    /\ out' = TrimTokens(InnerHTML(body))
    /\ pc' = "done"
    /\ UNCHANGED <<html, body, pre, output, editor, timer, cleared>>

\* return body.innerHTML.trim()
SerializeStep ==
    /\ pc = "linked"
    /\ out' = TrimTokens(InnerHTML(body))
    /\ pc' = "done"
    /\ UNCHANGED <<html, body, pre, output, editor, timer, cleared>>

Next == Parse \/ SanitizeStep \/ ListStep \/ PruneStep \/ LinkStep \/ SerializeStep

Spec == Init /\ [][Next]_vars

(***************************************************************************)
(* Properties.                                                             *)
(***************************************************************************)
ElementsOf(n) == {m \in Nodes(n) : m.kind = "el"}

Sanitized == pc \in {"sanitized", "listed", "pruned", "linked", "done"}

\* the children of the body that stand, after the sanitizer, where the i-th
\* child of the body stood before it
StandsFor(i) ==
    SubSeq(body.kids,
           Len(processChildren(SubSeq(pre.kids, 1, i - 1))) + 1,
           Len(body.kids) - Len(processChildren(SubSeq(pre.kids, i + 1, Len(pre.kids)))))

\* C1: cleanHTML is idempotent: cleaning the output of a call again gives
\* the same markup.
C1_Idempotent == pc = "done" => cleanHTML(out) = out

DeclaresBold(n) == IsBoldStyle(GetAttribute(n.attrs, N_style))

DeclaresItalic(n) == IsItalicStyle(GetAttribute(n.attrs, N_style))

\* what the emphasis conversion promises for a span with sanitized children ks
EmphasisOf(n, ks) ==
    IF DeclaresBold(n) /\ DeclaresItalic(n)
    THEN <<El("strong", <<>>, <<El("em", <<>>, ks)>>)>>
    ELSE IF DeclaresBold(n) THEN <<El("strong", <<>>, ks)>>
    ELSE IF DeclaresItalic(n) THEN <<El("em", <<>>, ks)>>
    ELSE ks

\* C2: a span that declares bold in its style becomes strong, one that
\* declares bold and italic becomes strong holding em, one that declares
\* italic becomes em, and only a span with neither is unwrapped.
C2_EmphasisConversion ==
    pc = "sanitized" =>
       \A i \in 1..Len(pre.kids) :
          IsTag(pre.kids[i], "span") /\ pre.kids[i].kids # <<>> =>
             StandsFor(i) = EmphasisOf(pre.kids[i], processChildren(pre.kids[i].kids))

CleanAttribute(a) ==
    /\ a.name \notin {N_class, N_style, N_dir, N_aria_level}
    /\ ~(a.name = N_role /\ a.value = S_presentation)
    /\ Trim(a.value) # <<>>

C4_NoSpans ==
    /\ Sanitized => \A e \in ElementsOf(body) : e.tag # "span"
    /\ pc = "done" => \A k \in 1..Len(out) : out[k].tag # "span"

C4_Witness ==
    /\ pc = "sanitized"
    /\ \E n \in ElementsOf(pre) :
          /\ n.tag = "span"
          /\ n.attrs # <<>>
          /\ \E m \in Descendants(n) : IsTag(m, "span") /\ m.kids # <<>>
    /\ body.kids # <<>>

\* C5: after the sanitizer no comment node is left at any depth, and the
\* output has none.
C5_NoComments ==
    /\ Sanitized => \A n \in Nodes(body) : n.kind # "comment"
    /\ pc = "done" => \A k \in 1..Len(out) : out[k].t # "comment"

C5_Witness ==
    /\ pc = "sanitized"
    /\ \E i \in 1..Len(pre.kids) : pre.kids[i].kind = "comment"
    /\ \E n \in ElementsOf(pre) :
          /\ n.tag \in {"span", "p"}
          /\ \E e \in Descendants(n) : IsEl(e) /\ \E m \in Descendants(e) : m.kind = "comment"

Marker(k) == <<"H", <<"1", "2", "3", "4">>[k], ":">>

LowerMarker(k) == <<"h", <<"1", "2", "3", "4">>[k], ":">>

Announces(n, k) == StartsWith(Trim(TextContent(n)), Marker(k))

\* the heading of level k that holds the text of n after the marker, trimmed
HeadingFor(n, k) ==
    LET rest == Trim(SubSeq(Trim(TextContent(n)), 4, Len(Trim(TextContent(n)))))
    IN El(<<"h1", "h2", "h3", "h4">>[k], <<>>, IF rest = <<>> THEN <<>> ELSE <<Txt(rest)>>)

ListItemsAt(b) ==
    UNION {{<<i, j>> : j \in {k \in 1..Len(b.kids[i].kids) : IsTag(b.kids[i].kids[k], "li")}} :
              i \in {k \in 1..Len(b.kids) : IsTag(b.kids[k], "ul")}}

ItemAt(b, ij) == b.kids[ij[1]].kids[ij[2]]

\* the index of the child of li that holds the offset c of the text of li
HolderOf(li, c) ==
    CHOOSE m \in 1..Len(li.kids) :
       /\ Len(TextOfSeq(SubSeq(li.kids, 1, m - 1))) <= c
       /\ c < Len(TextOfSeq(SubSeq(li.kids, 1, m)))

\* the first colon of li is at an offset 1..79 inside a child that is a text
\* node, and the first child of li is not strong or b
LabelCase(li) ==
    LET c == IndexOf(TextContent(li), ":")
    IN /\ li.kids # <<>>
       /\ ~IsBoldTag(li.kids[1])
       /\ c > 0 /\ c < 80
       /\ li.kids[HolderOf(li, c)].kind = "text"

\* the label stands first in the item `after` that li has become, and the
\* remainder of the text node and the children `later` follow it
Labelled(li, after, later) ==
    LET text == TextContent(li)
        c == IndexOf(text, ":")
        m == HolderOf(li, c)
        tail == SubSeq(TextOfSeq(SubSeq(li.kids, 1, m)), c + 2,
                       Len(TextOfSeq(SubSeq(li.kids, 1, m))))
    IN /\ after.kids # <<>>
       /\ IsTag(after.kids[1], "strong")
       /\ TextContent(after.kids[1]) = SubSeq(text, 1, c + 1)
       /\ Tail(after.kids) = (IF tail = <<>> THEN <<>> ELSE <<Txt(tail)>>) \o later

\* li with every p below it unwrapped
Unwrapped(li) == [li EXCEPT !.kids = UnwrapParagraphs(li.kids)]

NoBoldBefore(li, m) == \A k \in 1..(m - 1) : ~IsBoldTag(li.kids[k])

Normalized(children) == [k \in 1..Len(children) |-> cleanListItems(children[k])]

\* C7 as stated: a list item whose first child is not strong/b and whose
\* first colon is at an offset 1..79 inside a text-node child has, after the
\* normalizer, a strong first child holding the text up to and including
\* the colon, followed by the rest of its content in order; an item whose
\* first child is strong/b keeps its children.  (The item is taken with its
\* paragraphs unwrapped, and content counts as unchanged when it is as the
\* normalizer leaves the paragraphs and list items nested in it.)
C7_AutoLabel_AsStated ==
    pc = "listed" =>
       \A ij \in ListItemsAt(pre) :
          LET li == Unwrapped(ItemAt(pre, ij))
              c == IndexOf(TextContent(li), ":")
          IN /\ LabelCase(li) =>
                   Labelled(li, ItemAt(body, ij),
                            Normalized(SubSeq(li.kids, HolderOf(li, c) + 1, Len(li.kids))))
             /\ li.kids # <<>> /\ IsBoldTag(li.kids[1]) =>
                   ItemAt(body, ij).kids = Normalized(li.kids)

\* C7, amended: the same, for an item that has no strong/b element among
\* the children before the text node that holds the colon.
C7_AutoLabel ==
    pc = "listed" =>
       \A ij \in ListItemsAt(pre) :
          LET li == Unwrapped(ItemAt(pre, ij))
              c == IndexOf(TextContent(li), ":")
          IN /\ LabelCase(li) /\ NoBoldBefore(li, HolderOf(li, c)) =>
                   Labelled(li, ItemAt(body, ij),
                            Normalized(SubSeq(li.kids, HolderOf(li, c) + 1, Len(li.kids))))
             /\ li.kids # <<>> /\ IsBoldTag(li.kids[1]) =>
                   ItemAt(body, ij).kids = Normalized(li.kids)

C7_Witness ==
    /\ pc = "listed"
    /\ \E ij \in ListItemsAt(pre) :
          LET li == ItemAt(pre, ij)
              c == IndexOf(TextContent(li), ":")
          IN /\ LabelCase(li) /\ NoBoldBefore(li, HolderOf(li, c))
             /\ HolderOf(li, c) = 2
             /\ IsEl(li.kids[1])
             /\ Len(li.kids) = 3
             /\ ItemAt(body, ij).kids[1].kids = <<li.kids[1], Txt(<<":">>)>>

\* C8: a list item whose first colon is at offset 0 or at offset 80 or more,
\* or that has no colon, gets no label: its children stay as they are
\* (paragraphs unwrapped, nested items normalized).
C8_ColonBoundary ==
    pc = "listed" =>
       \A ij \in ListItemsAt(pre) :
          LET li == Unwrapped(ItemAt(pre, ij))
              c == IndexOf(TextContent(li), ":")
          IN ~(c >= 1 /\ c <= 79) => ItemAt(body, ij).kids = Normalized(li.kids)

C8_Witness ==
    /\ pc = "listed"
    /\ \E ij \in ListItemsAt(pre) :
          /\ IndexOf(TextContent(ItemAt(pre, ij)), ":") = 80
          /\ ItemAt(body, ij) = ItemAt(pre, ij)

InnerTrimmed(e) == TrimTokens(InnerHTML(e))

NamedUseful(a) ==
    \/ a.name \in {N_href, N_src, N_alt, N_title, N_id, N_name, N_role}
    \/ StartsWith(a.name, P_data)
    \/ StartsWith(a.name, P_aria)

PrefixUseful(a) ==
    \E u \in {N_href, N_src, N_alt, N_title, N_id, N_name, N_role, P_data, P_aria} :
       StartsWith(a.name, u)

Below(b) == ElementsOf(b) \ {b}

\* C9 as stated: after the pruner every element under the body other than
\* img, br, hr, input, meta, link has content or an attribute that is href,
\* src, alt, title, id, name, role or begins with data- or aria-; the body
\* is never removed.
C9_PrunerPostcondition_AsStated ==
    pc = "pruned" =>
       /\ body.tag = "body"
       /\ \A e \in Below(body) :
             e.tag \notin {"img", "br", "hr", "input", "meta", "link"} =>
                \/ InnerTrimmed(e) # <<>>
                \/ \E i \in 1..Len(e.attrs) : NamedUseful(e.attrs[i])

\* C9, amended: ... or an attribute whose name begins with href, src, alt,
\* title, id, name, role, data- or aria-.
C9_PrunerPostcondition ==
    pc = "pruned" =>
       /\ body.tag = "body"
       /\ \A e \in Below(body) :
             e.tag \notin {"img", "br", "hr", "input", "meta", "link"} =>
                \/ InnerTrimmed(e) # <<>>
                \/ \E i \in 1..Len(e.attrs) : PrefixUseful(e.attrs[i])

C9_Witness ==
    /\ pc = "pruned"
    /\ \E e \in Below(body) : e.tag = "div" /\ e.kids = <<>> /\ e.attrs # <<>>
    /\ \E n \in Below(pre) : n.tag = "div" /\ n.kids # <<>> /\ InnerTrimmed(n) # <<>>
    /\ body # pre

IsBrTag(tk) == tk.t = "start" /\ tk.tag = "br"

\* C10 as stated: a p whose trimmed inner content is empty or exactly one br
\* element is removed, useful attributes or not; img, br, hr, input, meta
\* and link are never removed by their own emptiness check.
C10_PruningRule_AsStated ==
    pc = "pruned" =>
       /\ \A n \in Below(pre) :
             /\ n.tag = "p"
             /\ (InnerTrimmed(n) = <<>> \/ (Len(InnerTrimmed(n)) = 1 /\ IsBrTag(InnerTrimmed(n)[1])))
             => removeEmptyElements(n) = <<>> /\ n \notin Below(body)
       /\ \A n \in Below(pre) :
             n.tag \in {"img", "br", "hr", "input", "meta", "link"} =>
                removeEmptyElements(n) = <<n>>

\* C10, amended: ... or exactly one br element that carries no attribute ...
C10_PruningRule ==
    pc = "pruned" =>
       /\ \A n \in Below(pre) :
             /\ n.tag = "p"
             /\ (InnerTrimmed(n) = <<>> \/ InnerTrimmed(n) = <<StartTag("br", <<>>)>>)
             => removeEmptyElements(n) = <<>> /\ n \notin Below(body)
       /\ \A n \in Below(pre) :
             n.tag \in {"img", "br", "hr", "input", "meta", "link"} =>
                removeEmptyElements(n) = <<n>>
       /\ \A i \in 1..Len(pre.kids) :
             pre.kids[i].kind = "el" /\ pre.kids[i].tag \in {"img", "br", "hr"} =>
                \E j \in 1..Len(body.kids) : body.kids[j] = pre.kids[i]

C10_Witness ==
    /\ pc = "pruned"
    /\ \E i \in 1..Len(pre.kids) :
          /\ IsTag(pre.kids[i], "p")
          /\ pre.kids[i].attrs = <<Attr(N_id, T_x)>>
          /\ Len(pre.kids[i].kids) = 1
          /\ IsTag(pre.kids[i].kids[1], "br")
    /\ body.kids = <<>>

(***************************************************************************)
(* Properties of the Auto-Linker.                                          *)
(***************************************************************************)
\* the pieces a text is cut into by its matches ms: the text before the
\* first match, then each match followed by the text up to the next match
\* or to the end; a piece of text that is empty is no piece
Cut(text, ms) ==
    LET gap(j) == [link |-> FALSE,
                   from |-> IF j = 0 THEN 0 ELSE ms[j].end,
                   to |-> IF j = Len(ms) THEN Len(text) ELSE ms[j + 1].index,
                   phone |-> FALSE]
        piece(j) == IF gap(j).from < gap(j).to THEN <<gap(j)>> ELSE <<>>
    IN piece(0) \o Concat([j \in 1..Len(ms) |->
                             <<[link |-> TRUE, from |-> ms[j].index, to |-> ms[j].end,
                                phone |-> ms[j].phone]>> \o piece(j)])

\* the number of nodes that stand, after the stage, for a child of an
\* element; inLink: the element is a hyperlink or lies in one
PieceCount(child, inLink) ==
    IF child.kind = "text" /\ ~inLink /\ MatchAll(child.text, 0) # <<>>
    THEN Len(Cut(child.text, MatchAll(child.text, 0)))
    ELSE 1

\* the index, after the stage, of the first node that stands for the i-th child
RECURSIVE StartOf(_, _, _)
StartOf(children, i, inLink) ==
    IF i = 1 THEN 1
    ELSE StartOf(children, i - 1, inLink) + PieceCount(children[i - 1], inLink)

\* an element before the stage, the element that stands for it after the
\* stage, and whether it is a hyperlink or lies in one: for p and for the
\* elements below it
RECURSIVE HolderPairs(_, _, _)
HolderPairs(p, q, inLink) ==
    {[before |-> p, after |-> q, inLink |-> inLink]}
    \cup UNION {HolderPairs(p.kids[i], q.kids[StartOf(p.kids, i, inLink)],
                            inLink \/ p.kids[i].tag = "a") :
                   i \in {k \in 1..Len(p.kids) :
                            /\ p.kids[k].kind = "el"
                            /\ StartOf(p.kids, k, inLink) <= Len(q.kids)
                            /\ q.kids[StartOf(p.kids, k, inLink)].kind = "el"}}

Holders == HolderPairs(pre, body, FALSE)

\* the nodes that stand for the i-th child of the holder h
StandIn(h, i) ==
    SubSeq(h.after.kids, StartOf(h.before.kids, i, h.inLink),
           StartOf(h.before.kids, i + 1, h.inLink) - 1)

IsLink(n) == n.kind = "el" /\ n.tag = "a"

\* seq is the text cut by its matches, every match wrapped in a hyperlink
\* to mailto:<match> or to tel:..., every other piece a text node
IsLinkedText(text, seq) ==
    LET cut == Cut(text, MatchAll(text, 0))
    IN /\ Len(seq) = Len(cut)
       /\ \A k \in 1..Len(cut) :
             LET piece == Substring(text, cut[k].from, cut[k].to)
             IN IF cut[k].link
                THEN /\ IsLink(seq[k])
                     /\ seq[k].kids = <<Txt(piece)>>
                     /\ Len(seq[k].attrs) = 1
                     /\ seq[k].attrs[1].name = N_href
                     /\ IF cut[k].phone
                        THEN StartsWith(seq[k].attrs[1].value, S_tel)
                        ELSE seq[k].attrs[1].value = S_mailto \o piece
                ELSE seq[k] = Txt(piece)

\* C11: a text node outside any hyperlink that has matches is replaced,
\* where it stands, by the hyperlinks of its matches in their order, each
\* holding exactly the matched text and pointing to mailto:<match> or to
\* tel:..., with the text before, between and after the matches kept as
\* text nodes; a text node without a match stays as it is, and so does
\* every other child.
C11_LinkReplacement ==
    pc = "linked" =>
        \A h \in Holders :
            /\ Len(h.after.kids) = StartOf(h.before.kids, Len(h.before.kids) + 1, h.inLink) - 1
            /\ \A i \in 1..Len(h.before.kids) :
                  LET child == h.before.kids[i]
                  IN IF child.kind = "text" /\ ~h.inLink /\ MatchAll(child.text, 0) # <<>>
                     THEN IsLinkedText(child.text, StandIn(h, i))
                     ELSE IF child.kind = "el"
                     THEN /\ Len(StandIn(h, i)) = 1
                          /\ StandIn(h, i)[1].kind = "el"
                          /\ StandIn(h, i)[1].tag = child.tag
                          /\ StandIn(h, i)[1].attrs = child.attrs
                     ELSE StandIn(h, i) = <<child>>

\* a paragraph held a text with three matches and text between them, and
\* now holds three hyperlinks
C11_Witness ==
    /\ pc = "linked"
    /\ \E h \in Holders : \E i \in 1..Len(h.before.kids) :
          /\ h.before.kids[i].kind = "text"
          /\ Len(MatchAll(h.before.kids[i].text, 0)) = 3
          /\ Len(StandIn(h, i)) = 5
          /\ IsLink(StandIn(h, i)[1])
          /\ StandIn(h, i)[2] = Txt(T_or)

\* the hyperlinks made for the telephone numbers of the text children of
\* the elements outside hyperlinks, each with the text it was made for
PhoneLinks ==
    UNION {UNION {{[a |-> StandIn(h, i)[k], matchText |-> TextContent(StandIn(h, i)[k])] :
                      k \in {n \in 1..Len(StandIn(h, i)) :
                               Cut(h.before.kids[i].text,
                                   MatchAll(h.before.kids[i].text, 0))[n].phone}} :
                     i \in {j \in 1..Len(h.before.kids) :
                              /\ h.before.kids[j].kind = "text"
                              /\ MatchAll(h.before.kids[j].text, 0) # <<>>
                              /\ IsLinkedText(h.before.kids[j].text, StandIn(h, j))}} :
              h \in {g \in Holders : ~g.inLink}}

DigitsOf(text) == SelectSeq(text, LAMBDA ch : ch \in Digits)

\* C12 as stated: the target of the hyperlink of a telephone number is
\* tel: followed by the digits of the matched text and nothing else.
C12_PhoneTarget_AsStated ==
    pc = "linked" =>
        \A l \in PhoneLinks : GetAttribute(l.a.attrs, N_href) = S_tel \o DigitsOf(l.matchText)

\* C12, amended: the target is tel: followed by the matched text without
\* its white space, parentheses and dashes: the digits of the number,
\* after the plus sign when the number is of the international form.
C12_PhoneTarget ==
    pc = "linked" =>
        \A l \in PhoneLinks :
            GetAttribute(l.a.attrs, N_href)
                = S_tel \o (IF Head(l.matchText) = "+" THEN <<"+">> ELSE <<>>)
                        \o DigitsOf(l.matchText)

\* numbers of the international and of the parenthesized form were linked
C12_Witness ==
    /\ pc = "linked"
    /\ \E l \in PhoneLinks : Head(l.matchText) = "+"
    /\ \E l \in PhoneLinks : Head(l.matchText) = "(" /\ "-" \in {l.matchText[k] : k \in 1..Len(l.matchText)}

HasMatches(n) == n.kind = "text" /\ MatchAll(n.text, 0) # <<>>

\* C13: the stage leaves every hyperlink of the tree as it is, with all
\* that is below it at any depth, the text it holds is not scanned, and
\* after the stage no hyperlink lies in another one: the hyperlinks the
\* stage makes hold one text node each.
C13_NoNestedLinks ==
    pc = "linked" =>
        /\ \A h \in Holders : h.inLink => h.after = h.before
        /\ \A a \in {e \in ElementsOf(body) : IsLink(e)} :
              \A d \in Descendants(a) : ~IsLink(d)
        /\ \A l \in PhoneLinks : l.a.kids = <<Txt(l.matchText)>>

\* a hyperlink held, below another element, a text with a telephone number
\* and is as it was, and in the same tree a text outside it was linked
C13_Witness ==
    /\ pc = "linked"
    /\ \E h \in Holders :
          /\ h.inLink
          /\ ~IsLink(h.before)
          /\ \E i \in 1..Len(h.before.kids) : HasMatches(h.before.kids[i])
    /\ \E h \in Holders :
          /\ IsLink(h.before)
          /\ \E d \in Descendants(h.before) : HasMatches(d)
          /\ h.after = h.before
    /\ PhoneLinks # {}

(***************************************************************************)
(* Stage 5: the Formatter (beautifyHTML, minifyHTML), on strings of        *)
(* characters.                                                             *)
(***************************************************************************)
\* RemoveLineBreaks without the g flag: the first line break only
RECURSIVE RemoveLineBreaks_First(_)
RemoveLineBreaks_First(s) ==
    IF s = <<>> THEN <<>>
    ELSE IF Head(s) = "\n" THEN TrimStart(Tail(s))
    ELSE <<Head(s)>> \o RemoveLineBreaks_First(Tail(s))

\* html.replace(/\n\s*/g, "")
RECURSIVE RemoveLineBreaks(_)
RemoveLineBreaks(s) ==
    IF s = <<>> THEN <<>>
    ELSE IF Head(s) = "\n" THEN RemoveLineBreaks(TrimStart(Tail(s)))
    ELSE <<Head(s)>> \o RemoveLineBreaks(Tail(s))

\* CollapseBetweenTags that puts ">" alone where "><" belongs
RECURSIVE CollapseBetweenTags_DropOpen(_)
CollapseBetweenTags_DropOpen(s) ==
    IF s = <<>> THEN <<>>
    ELSE LET rest == TrimStart(Tail(s))
         IN IF Head(s) = ">" /\ Len(rest) < Len(Tail(s)) /\ rest # <<>> /\ Head(rest) = "<"
            THEN <<">">> \o CollapseBetweenTags_DropOpen(Tail(rest))
            ELSE <<Head(s)>> \o CollapseBetweenTags_DropOpen(Tail(s))

\* html.replace(/>\s+</g, "><")
RECURSIVE CollapseBetweenTags(_)
CollapseBetweenTags(s) ==
    IF s = <<>> THEN <<>>
    ELSE LET rest == TrimStart(Tail(s))
         IN IF Head(s) = ">" /\ Len(rest) < Len(Tail(s)) /\ rest # <<>> /\ Head(rest) = "<"
            THEN <<">", "<">> \o CollapseBetweenTags(Tail(rest))
            ELSE <<Head(s)>> \o CollapseBetweenTags(Tail(s))

minifyHTML(markup) == Trim(CollapseBetweenTags(RemoveLineBreaks(markup)))

\* the loop of beautifyHTML that cuts the string into tokens
RECURSIVE Tokenize(_)
Tokenize(result) ==
    IF result = <<>> THEN <<>>
    ELSE IF Head(result) = "<"
    THEN LET end == IndexOf(result, ">")
         IN IF end = -1 THEN <<result>>
            ELSE <<Substring(result, 0, end + 1)>> \o Tokenize(SubstringFrom(result, end + 1))
    ELSE LET end == IndexOf(result, "<")
         IN IF end = -1 THEN <<result>>
            ELSE (IF Trim(Substring(result, 0, end)) # <<>>
                  THEN <<Substring(result, 0, end)>> ELSE <<>>)
                 \o Tokenize(SubstringFrom(result, end))

WordChars == Letters \cup Digits \cup {"_"}

\* the offset where the line that holds offset i ends (. matches no line break)
RECURSIVE LineEnd(_, _)
LineEnd(s, i) == IF i < Len(s) /\ s[i + 1] # "\n" THEN LineEnd(s, i + 1) ELSE i

\* the offsets of the name that /<\/?(\w+)[\s>].*/ captures at offset i
NameAt(token, i) ==
    LET from == IF OccursAt(token, <<"<", "/">>, i) THEN i + 2 ELSE i + 1
    IN [from |-> from, to |-> RunEnd(token, from, WordChars)]

TagMatches(token, i) ==
    /\ OccursAt(token, <<"<">>, i)
    /\ NameAt(token, i).to > NameAt(token, i).from
    /\ NameAt(token, i).to < Len(token)
    /\ token[NameAt(token, i).to + 1] \in WhiteSpace \cup {">"}

\* token.replace(/<\/?(\w+)[\s>].*/, "$1").toLowerCase()
TagName(token) ==
    LET starts == {i \in 0..(Len(token) - 1) : TagMatches(token, i)}
    IN IF starts = {} THEN ToLower(token)
       ELSE LET i == CHOOSE k \in starts : \A j \in starts : k <= j
                name == NameAt(token, i)
            IN ToLower(Substring(token, 0, i)
                       \o Substring(token, name.from, name.to)
                       \o SubstringFrom(token, LineEnd(token, name.to + 1)))

\* VOID_ELEMENTS, the names as strings of characters
VoidNames ==
    { <<"a", "r", "e", "a">>, <<"b", "a", "s", "e">>, <<"b", "r">>, <<"c", "o", "l">>,
      <<"e", "m", "b", "e", "d">>, <<"h", "r">>, <<"i", "m", "g">>,
      <<"i", "n", "p", "u", "t">>, <<"l", "i", "n", "k">>, <<"m", "e", "t", "a">>,
      <<"p", "a", "r", "a", "m">>, <<"s", "o", "u", "r", "c", "e">>,
      <<"t", "r", "a", "c", "k">>, <<"w", "b", "r">>} 

EndsWith(s, p) == Len(s) >= Len(p) /\ SubSeq(s, Len(s) - Len(p) + 1, Len(s)) = p

isSelfClosing(token) == EndsWith(token, <<"/", ">">>) \/ TagName(token) \in VoidNames

\* "  ".repeat(indent)
Repeat(indent) == [i \in 1..(2 * indent) |-> " "]

\* the loop of beautifyHTML that builds the lines from the k-th token on
RECURSIVE Lines(_, _, _)
Lines(tokens, k, indent) ==
    IF k > Len(tokens) THEN <<>>
    ELSE LET token == tokens[k]
             lower == IF indent > 0 THEN indent - 1 ELSE 0
         IN IF StartsWith(token, <<"<", "/">>)
            THEN <<Repeat(lower) \o token>> \o Lines(tokens, k + 1, lower)
            ELSE IF StartsWith(token, <<"<">>)
            THEN <<Repeat(indent) \o token>>
                 \o Lines(tokens, k + 1,
                          IF ~isSelfClosing(token) /\ ~StartsWith(token, <<"<", "!">>)
                          THEN indent + 1 ELSE indent)
            ELSE <<Repeat(indent) \o token>> \o Lines(tokens, k + 1, indent)

\* lines.join("\n")
Join(lines) ==
    Concat([i \in 1..Len(lines) |-> IF i = 1 THEN lines[i] ELSE <<"\n">> \o lines[i]])

beautifyHTML(markup) == Join(Lines(Tokenize(CollapseBetweenTags(markup)), 1, 0))

(***************************************************************************)
(* The formatter applied to a string: the display value of the host page   *)
(* is beautifyHTML(output) or minifyHTML(output).                          *)
(***************************************************************************)
\* the pieces the explored strings are made of: tags, text, white space,
\* and angle brackets on their own
Pieces ==
    { <<"<", "p", ">">>,
      <<"<", "/", "p", ">">>,
      <<"<", "B", "R", ">">>,
      <<"<", "i", "\n", " ", "b", "/", ">">>,
      <<"<", "!", "c", ">">>,
      <<"<", "b", "r", " ", "a", "\n", ">">>,
      <<"x", " ", "y">>,
      <<" ">>,
      <<"\n">>,
      <<"\t", "\n", " ">>,
      <<"<">>,
      <<">">> }

FormatInputs == {Concat(ps) : ps \in SeqsUpTo(Pieces, MaxPieces)}

FormatInit ==
    /\ html \in FormatInputs
    /\ body = NoDoc
    /\ pre = NoDoc
    /\ pc = "raw"
    /\ out = <<>>
    /\ output = <<>>
    /\ editor = <<>>
    /\ timer = NoTimer
    /\ cleared = FALSE

\* htmlFormat === "beautify": beautifyHTML(output)
Beautify ==
    /\ pc = "raw"
    /\ out' = beautifyHTML(html)
    /\ pc' = "beautified"
    /\ UNCHANGED <<html, body, pre, output, editor, timer, cleared>>

\* htmlFormat === "minify": minifyHTML(output)
Minify ==
    /\ pc = "raw"
    /\ out' = minifyHTML(html)
    /\ pc' = "minified"
    /\ UNCHANGED <<html, body, pre, output, editor, timer, cleared>>

FormatNext == Beautify \/ Minify

FormatSpec == FormatInit /\ [][FormatNext]_vars

\* C14: minifying a minified string changes nothing.  (Beautifying a
\* beautified string can change it again: C14_Witness.)
C14_MinifyIdempotent == pc = "minified" => minifyHTML(out) = out

\* a string that minify changed and does not change again, for which
\* beautifying the beautified string gives yet another string
C14_Witness ==
    /\ pc = "minified"
    /\ out # html
    /\ minifyHTML(out) = out
    /\ beautifyHTML(beautifyHTML(html)) # beautifyHTML(html)

\* s without its white space
NonWhite(s) == SelectSeq(s, LAMBDA ch : ch \notin WhiteSpace)

\* the tag tokens and text tokens of s in their order, white space ignored
TokenSequence(s) ==
    SelectSeq([i \in 1..Len(Tokenize(s)) |-> NonWhite(Tokenize(s)[i])],
              LAMBDA token : token # <<>>)

\* C15: minifying the beautified string and minifying the string give the
\* same sequence of tag and text tokens when white space is ignored, and
\* neither beautify nor minify drops, adds or reorders a character that is
\* not white space.
C15_RoundTrip ==
    /\ pc = "beautified" =>
          /\ TokenSequence(minifyHTML(out)) = TokenSequence(minifyHTML(html))
          /\ NonWhite(out) = NonWhite(html)
    /\ pc = "minified" => NonWhite(out) = NonWhite(html)

\* a string with a tag and text between tags whose minified beautified form
\* is not the minified string itself
C15_Witness ==
    /\ pc = "beautified"
    /\ Len(TokenSequence(html)) >= 2
    /\ \E i \in 1..Len(html) : html[i] = ">" /\ i < Len(html) /\ html[i + 1] \in WhiteSpace
    /\ minifyHTML(out) # minifyHTML(html)
    /\ out # html

(***************************************************************************)
(* The host page: runClean(html) with the content of the editor.  html is  *)
(* the argument, output the state the page displays; body, pre and out     *)
(* belong to the call of cleanHTML, if there is one.                       *)
(***************************************************************************)
\* what the page may display before the call
ShownBefore == {<<>>, <<CharTok("x")>>}

HostInit ==
    /\ html \in Inputs
    /\ body = NoDoc
    /\ pre = NoDoc
    /\ pc = "called"
    /\ out = <<>>
    /\ output \in ShownBefore
    /\ editor = <<>>
    /\ timer = NoTimer
    /\ cleared = FALSE

\* runClean that returns for blank input without setting the output
RunCleanEmpty_KeepOutput ==
    /\ pc = "called"
    /\ TrimTokens(html) = <<>>
    /\ pc' = "returned"
    /\ UNCHANGED <<html, body, pre, out, output, editor, timer, cleared>>

\* runClean: if (!html.trim()) { setOutput(""); return; }
RunCleanEmpty ==
    /\ pc = "called"
    /\ TrimTokens(html) = <<>>
    /\ output' = <<>>
    /\ pc' = "returned"
    /\ UNCHANGED <<html, body, pre, out, editor, timer, cleared>>

\* runClean: const cleaned = cleanHTML(html); setOutput(cleaned)
RunCleanPipeline ==
    /\ pc = "called"
    /\ TrimTokens(html) # <<>>
    /\ pre' = pruneBody(cleanListItems(Sanitize(ParseBody(html))))
    /\ body' = autoLinkEmailsAndPhones(pre')
    /\ out' = cleanHTML(html)
    /\ output' = out'
    /\ pc' = "returned"
    /\ UNCHANGED <<html, editor, timer, cleared>>

HostNext == RunCleanEmpty \/ RunCleanPipeline

HostSpec == HostInit /\ [][HostNext]_vars

\* the string is empty or holds white space only
IsBlank(markup) == \A i \in 1..Len(markup) : IsSpaceTok(markup[i])

\* C16: cleanHTML of an empty or white-space-only string is the empty
\* string, and runClean with such a string sets the output to the empty
\* string without calling cleanHTML.
C16_EmptyInput ==
    IsBlank(html) =>
        /\ cleanHTML(html) = <<>>
        /\ pc = "returned" => output = <<>> /\ body = NoDoc /\ out = <<>>

\* runClean has returned for a string of white space
C16_Witness ==
    /\ pc = "returned"
    /\ html # <<>>
    /\ IsBlank(html)
    /\ output = <<>>
    /\ body = NoDoc

(***************************************************************************)
(* More properties of the List Item Normalizer.                            *)
(***************************************************************************)
\* cleanListItems starts the colon scan for li
ScanStarts(li) ==
    /\ li.kids # <<>>
    /\ ~IsBoldTag(li.kids[1])
    /\ IndexOf(TextContent(li), ":") > 0
    /\ IndexOf(TextContent(li), ":") < ColonLimit

\* the scan meets the m-th child, a strong or b element, with the colon
\* not found in the children before it
MeetsBoldAt(li, m) ==
    /\ IsBoldTag(li.kids[m])
    /\ IndexOf(TextOfSeq(SubSeq(li.kids, 1, m - 1)), ":") = -1

\* C17: when the colon scan of a list item meets a child that is strong or
\* b, the item keeps exactly the children it had before the scan, in their
\* order: no child that the scan had passed is lost or moved.
C17_AbortRestores ==
    pc = "listed" =>
       \A ij \in ListItemsAt(pre) :
          LET li == Unwrapped(ItemAt(pre, ij))
          IN ScanStarts(li) /\ (\E m \in 1..Len(li.kids) : MeetsBoldAt(li, m)) =>
                ItemAt(body, ij).kids = Normalized(li.kids)

(***************************************************************************)
(* Which matches the Auto-Linker takes.                                    *)
(***************************************************************************)
\* the ends of the matches of the alternatives of the combined pattern at
\* offset i: the five telephone forms and the e-mail address
AlternativeEnds(text, i) ==
    ({MatchSteps(text, i, PHONE_REGEX[k], 1) : k \in 1..Len(PHONE_REGEX)}
     \cup {MatchEmail(text, i)}) \ {-1}

Longest(ends) == CHOOSE e \in ends : \A f \in ends : f <= e

\* the offsets in the text of the hyperlinks of seq, the nodes that stand
\* for a text node
Spans(seq) ==
    {[index |-> Len(TextOfSeq(SubSeq(seq, 1, k - 1))),
      end |-> Len(TextOfSeq(SubSeq(seq, 1, k)))] : k \in {n \in 1..Len(seq) : IsLink(seq[n])}}

\* the text children of the elements outside hyperlinks, each with the
\* nodes that stand for it after the stage
ScannedTexts ==
    UNION {{[text |-> h.before.kids[i].text, seq |-> StandIn(h, i)] :
               i \in {j \in 1..Len(h.before.kids) : h.before.kids[j].kind = "text"}} :
              h \in {g \in Holders : ~g.inLink}}

\* C18: in one text node the matches are found from left to right and do
\* not overlap, the search resumes at the end of each match (no match
\* starts in the text between the hyperlinks), and where more than one
\* alternative of the combined pattern matches at the start of a match,
\* the longest match is taken.
C18_LeftmostLongest ==
    pc = "linked" =>
       \A t \in ScannedTexts :
          /\ TextOfSeq(t.seq) = t.text
          /\ \A m \in Spans(t.seq) :
                /\ m.index < m.end
                /\ AlternativeEnds(t.text, m.index) # {}
                /\ m.end = Longest(AlternativeEnds(t.text, m.index))
          /\ \A i \in 0..(Len(t.text) - 1) :
                (\A m \in Spans(t.seq) : i < m.index \/ i >= m.end) =>
                    AlternativeEnds(t.text, i) = {}

(***************************************************************************)
(* The order of the stages.                                                *)
(***************************************************************************)
StageAfter(stage) ==
    CASE stage = "start" -> "parsed"
      [] stage = "parsed" -> "sanitized"
      [] stage = "sanitized" -> "listed"
      [] stage = "listed" -> "pruned"
      [] stage = "pruned" -> "linked"
      [] stage = "linked" -> "done"
      [] OTHER -> "none"

\* C19: a call of cleanHTML parses, then runs the Tree Sanitizer, the List
\* Item Normalizer, the Empty Element Pruner and the Auto-Linker, then
\* serializes: every step is the next stage applied to the tree the stage
\* before left, none is skipped or repeated, the Auto-Linker comes after the
\* three rewriting stages, and the value returned is the trimmed
\* serialization of the tree, not formatted.
C19_StageOrder ==
    [][/\ pc' = StageAfter(pc)
       /\ html' = html
       /\ pc = "start" => body' = ParseBody(html)
       /\ pc = "parsed" => body' = Sanitize(body)
       /\ pc = "sanitized" => body' = cleanListItems(body)
       /\ pc = "listed" => body' = pruneBody(body)
       /\ pc = "pruned" => body' = autoLinkEmailsAndPhones(body)
       /\ pc = "linked" => body' = body /\ out' = TrimTokens(InnerHTML(body))
       /\ pc # "linked" => out' = <<>>]_vars

\* a call has returned for markup on which the three later stages each
\* changed the tree
C19_Witness ==
    /\ pc = "done"
    /\ out # <<>>
    /\ body # pre
    /\ cleanListItems(Sanitize(ParseBody(html))) # Sanitize(ParseBody(html))
    /\ pre # cleanListItems(Sanitize(ParseBody(html)))

(***************************************************************************)
(* Paragraphs in list items.                                               *)
(***************************************************************************)
\* markup without the start and end tags of its p elements
WithoutParagraphTags(markup) == SelectSeq(markup, LAMBDA token : token.tag # "p")

TagWord(token) == ToLower(Substring(token, 1, RunEnd(token, 1, WordChars)))

IsClosingTag(token) == StartsWith(token, <<"<", "/">>)

\* an opening tag that raises the level for the tokens after it
RaisesLevel(token) ==
    /\ StartsWith(token, <<"<">>)
    /\ ~IsClosingTag(token)
    /\ ~StartsWith(token, <<"<", "!">>)
    /\ ~EndsWith(token, <<"/", ">">>)
    /\ TagWord(token) \notin VoidNames

\* the level at which the k-th token is emitted, level being the level
\* after the token before it
LevelAt(token, level) ==
    IF IsClosingTag(token) THEN (IF level > 0 THEN level - 1 ELSE 0) ELSE level

\* the lines for the tokens from the k-th on
RECURSIVE IndentedLines(_, _, _)
IndentedLines(tokens, k, level) ==
    IF k > Len(tokens) THEN <<>>
    ELSE <<Repeat(LevelAt(tokens[k], level)) \o tokens[k]>>
         \o IndentedLines(tokens, k + 1,
                          IF RaisesLevel(tokens[k]) THEN level + 1
                          ELSE LevelAt(tokens[k], level))

\* C21: beautifyHTML emits one token per line after two spaces per level;
\* an opening tag raises the level for the tokens after it unless it ends
\* in /> or its tag name is a void element; a closing tag lowers the level,
\* not below 0, before it is emitted; a token that starts with <! is
\* emitted at the level it finds and leaves it as it is.
C21_Indentation ==
    pc = "beautified" =>
        out = Join(IndentedLines(Tokenize(CollapseBetweenTags(html)), 1, 0))

(***************************************************************************)
(* How the colon scan ends.                                                *)
(***************************************************************************)
\* the list items of the tree before the stage for which cleanListItems
\* starts the scan, after their paragraphs were unwrapped
ScannedItems ==
    {li \in {Unwrapped(ItemAt(pre, ij)) : ij \in ListItemsAt(pre)} : ScanStarts(li)}

\* C22: whenever cleanListItems starts the colon scan of a list item, the
\* scan ends by finding the colon in a text or element child or by the
\* return on a strong or b child; it never runs through all the children
\* with the colon not found, so the branch that puts everything back is
\* not taken.
C22_RevertUnreachable ==
    pc = "listed" =>
       \A li \in ScannedItems :
          /\ ScanOutcome(li.kids, 1) \in {"found", "aborted"}
          /\ \A n \in Nodes(li) : n.kind # "comment"

\* the scan of an item has passed a child without a colon and found the
\* colon in an element child, and the scan of an item has ended on a strong
\* or b child
C22_Witness ==
    /\ pc = "listed"
    /\ \E li \in ScannedItems :
          /\ Len(li.kids) >= 2
          /\ IndexOf(TextContent(li.kids[1]), ":") = -1
          /\ \E m \in 2..Len(li.kids) :
                /\ li.kids[m].kind = "el"
                /\ IndexOf(TextOfSeq(SubSeq(li.kids, 1, m - 1)), ":") = -1
                /\ IndexOf(TextContent(li.kids[m]), ":") # -1
                /\ ScanOutcome(li.kids, 1) = "found"
    /\ \E li \in ScannedItems : ScanOutcome(li.kids, 1) = "aborted"

(***************************************************************************)
(* The Auto-Linker keeps the text and the elements.                        *)
(***************************************************************************)
\* a node that may stand for a part of a text: a text node, or a hyperlink
\* with nothing but an address and one text node
IsTextPiece(n) ==
    \/ n.kind = "text"
    \/ /\ IsLink(n)
       /\ Len(n.attrs) = 1
       /\ n.attrs[1].name = N_href
       /\ Len(n.kids) = 1
       /\ n.kids[1].kind = "text"

\* the index after the text pieces from the j-th node on that hold need
\* characters; beyond Len(after) + 1 if a node that is no text piece comes
\* first
RECURSIVE PiecesEnd(_, _, _)
PiecesEnd(after, j, need) ==
    IF need <= 0 THEN j
    ELSE IF j > Len(after) \/ ~IsTextPiece(after[j]) THEN Len(after) + 2
    ELSE PiecesEnd(after, j + 1, need - Len(TextContent(after[j])))

\* the nodes of after from the j-th on are the nodes of before from the
\* i-th on, except that a text node may be cut into text pieces with the
\* same characters: every element stands where it stood with its tag and
\* its attributes, and so below it
RECURSIVE SameButLinks(_, _, _, _)
SameButLinks(before, after, i, j) ==
    IF i > Len(before) THEN j = Len(after) + 1
    ELSE IF j > Len(after) THEN FALSE
    ELSE LET child == before[i]
         IN IF child.kind = "el"
            THEN /\ after[j].kind = "el"
                 /\ after[j].tag = child.tag
                 /\ after[j].attrs = child.attrs
                 /\ TextContent(after[j]) = TextContent(child)
                 /\ SameButLinks(child.kids, after[j].kids, 1, 1)
                 /\ SameButLinks(before, after, i + 1, j + 1)
            ELSE IF after[j] = child
            THEN SameButLinks(before, after, i + 1, j + 1)
            ELSE /\ child.kind = "text"
                 /\ LET e == PiecesEnd(after, j, Len(child.text))
                    IN /\ e <= Len(after) + 1
                       /\ TextOfSeq(SubSeq(after, j, e - 1)) = child.text
                       /\ SameButLinks(before, after, i + 1, e)

\* C23: the text content of the body, and of every element, is the same
\* before and after autoLinkEmailsAndPhones; the stage only puts a elements
\* around parts of text nodes and changes no character, and every element
\* that was there before the stage is there after it with its tag and its
\* attributes.
C23_TextPreserved ==
    pc = "linked" =>
        /\ TextContent(body) = TextContent(pre)
        /\ body.tag = pre.tag
        /\ body.attrs = pre.attrs
        /\ SameButLinks(pre.kids, body.kids, 1, 1)

\* the stage has rewritten a text node below an element that has an
\* attribute, and a telephone number with white space in it is now the
\* text of a hyperlink
C23_Witness ==
    /\ pc = "linked"
    /\ body # pre
    /\ \E h \in Holders :
          /\ h.before.attrs # <<>>
          /\ h.after # h.before
    /\ \E n \in Nodes(body) :
          /\ IsLink(n)
          /\ n \notin Nodes(pre)
          /\ \E k \in 1..Len(TextContent(n)) : TextContent(n)[k] \in WhiteSpace

(***************************************************************************)
(* The host page: the editor, the debounced runClean, paste and Clear.     *)
(* editor is editorRef.current.innerHTML, output the state the page        *)
(* displays, timer the call of runClean that useDebouncedCallback holds    *)
(* back, with its argument; html, body, pre and out belong to the last     *)
(* call of runClean.  cleared records that handleClear has run and no      *)
(* input or paste event has followed it.                                   *)
(***************************************************************************)
\* what the editor may hold after an edit or a paste
EditorContents ==
    { <<>>,
      Markup(<<Txt(T_sp)>>),
      Markup(<<El("p", <<>>, <<Txt(T_x)>>)>>),
      Markup(<<El("p", <<>>, <<Txt(T_mail)>>)>>),
      Markup(<<El("ul", <<>>, <<El("li", <<>>, <<Txt(T_a \o T_colon_v)>>)>>)>>) }

PageInit ==
    /\ html = <<>>
    /\ body = NoDoc
    /\ pre = NoDoc
    /\ pc = "idle"
    /\ out = <<>>
    /\ output = <<>>
    /\ editor = <<>>
    /\ timer = NoTimer
    /\ cleared = FALSE

\* runClean(arg), both branches
runClean(arg) ==
    /\ html' = arg
    /\ IF TrimTokens(arg) = <<>>
       THEN /\ output' = <<>>
            /\ UNCHANGED <<body, pre, out>>
       ELSE /\ pre' = pruneBody(cleanListItems(Sanitize(ParseBody(arg))))
            /\ body' = autoLinkEmailsAndPhones(pre')
            /\ out' = cleanHTML(arg)
            /\ output' = out'

\* an input event in the editor: debouncedRunClean(editorRef.current.innerHTML)
\* takes the content of the editor as it is now and (re)starts the delay
handleEditorInput ==
    \E content \in EditorContents :
        /\ content # editor
        /\ editor' = content
        /\ timer' = [set |-> TRUE, arg |-> content]
        /\ cleared' = FALSE
        /\ pc' = "input"
        /\ UNCHANGED <<html, body, pre, out, output>>

\* the delay of the debounced call is over: runClean with the argument of
\* the last call of debouncedRunClean
TimerFires ==
    /\ timer.set
    /\ runClean(timer.arg)
    /\ timer' = NoTimer
    /\ pc' = "timer"
    /\ UNCHANGED <<editor, cleared>>

\* a paste event: insertHTML, then runClean(editorRef.current.innerHTML) at once
handlePaste ==
    \E content \in EditorContents :
        /\ editor' = content
        /\ runClean(content)
        /\ cleared' = FALSE
        /\ pc' = "paste"
        /\ UNCHANGED timer

\* the Clear button: setOutput(""), editorRef.current.innerHTML = ""
handleClear ==
    /\ output' = <<>>
    /\ editor' = <<>>
    /\ cleared' = TRUE
    /\ pc' = "clear"
    /\ UNCHANGED <<html, body, pre, out, timer>>

PageNext == handleEditorInput \/ TimerFires \/ handlePaste \/ handleClear

PageSpec == PageInit /\ [][PageNext]_vars

\* C24: after handleClear has emptied the editor and the output, the output
\* stays empty until the next input or paste event in the editor, also when
\* an input event has scheduled the debounced runClean before Clear and the
\* delay ends after it.
C24_ClearStays ==
    cleared => output = <<>>
====
